---- MODULE Spec2Model ----
(***************************************************************************)
(* Model of src/bot.py: a Telegram expenses bot.  The record store         *)
(* (Supabase) holds four tables; every handler invocation runs a sequence  *)
(* of store calls through supa_exec, each of which either succeeds or      *)
(* returns an error that supa_exec swallows.                               *)
(*                                                                         *)
(* Conventions                                                             *)
(*   - a text is a sequence of one-character strings;                      *)
(*   - a Python Optional is a sequence: <<>> is None, <<v>> is the value;  *)
(*   - an amount is an integer number of hundredths (23.50 is 2350); the   *)
(*     value read by float() is carried as an integer number of            *)
(*     thousandths, and round(n, 2) is computed on the IEEE-754 double     *)
(*     nearest to it, as CPython does;                                     *)
(*   - out lists the outcomes of the store calls of one handler            *)
(*     invocation, in the order the calls are made (TRUE: the call         *)
(*     succeeds, FALSE: supa_exec returns an error and the store is left   *)
(*     as it was).                                                         *)
(***************************************************************************)
EXTENDS Integers, Sequences, FiniteSets, TLC

VARIABLES exp_users, exp_bot_state, exp_expenses, exp_monthly_totals, now, stagings,
          inflight, alone, staged, arg, ret

vars == <<exp_users, exp_bot_state, exp_expenses, exp_monthly_totals, now, stagings,
          inflight, alone, staged, arg, ret>>

None == <<>>

Some(v) == <<v>>

(***************************************************************************)
(* Python string primitives used by the handlers.                          *)
(***************************************************************************)
Whitespace == {" ", "\t", "\n"}

Digits == <<"0", "1", "2", "3", "4", "5", "6", "7", "8", "9">>

IsDigit(c) == \E i \in 1..10 : Digits[i] = c

DigitVal(c) == (CHOOSE i \in 1..10 : Digits[i] = c) - 1

RECURSIVE LStrip(_)
LStrip(s) ==
  IF s = <<>> THEN s
  ELSE IF Head(s) \in Whitespace THEN LStrip(Tail(s)) ELSE s

RECURSIVE RStrip(_)
RStrip(s) ==
  IF s = <<>> THEN s
  ELSE IF s[Len(s)] \in Whitespace THEN RStrip(SubSeq(s, 1, Len(s) - 1)) ELSE s

\* str.strip()
Strip(s) == RStrip(LStrip(s))

\* str.split(): the maximal runs of non-whitespace characters, in order
RECURSIVE SplitFrom(_, _, _)
SplitFrom(s, cur, acc) ==
  IF s = <<>> THEN (IF cur = <<>> THEN acc ELSE Append(acc, cur))
  ELSE IF Head(s) \in Whitespace
       THEN SplitFrom(Tail(s), <<>>, IF cur = <<>> THEN acc ELSE Append(acc, cur))
       ELSE SplitFrom(Tail(s), Append(cur, Head(s)), acc)

Split(s) == SplitFrom(s, <<>>, <<>>)

\* " ".join(words)
RECURSIVE Join(_)
Join(words) ==
  IF words = <<>> THEN <<>>
  ELSE IF Len(words) = 1 THEN words[1]
  ELSE words[1] \o <<" ">> \o Join(Tail(words))

\* text.replace(",", ".")
ReplaceComma(s) == [i \in 1..Len(s) |-> IF s[i] = "," THEN "." ELSE s[i]]

\* " ".join(text.split()).strip()
NormalizeTitle(text) == Strip(Join(Split(text)))

(***************************************************************************)
(* float(): the decimal forms [sign] digits [. digits] with at least one   *)
(* digit and at most three fractional digits; any other character raises   *)
(* ValueError.  Exponent, inf/nan and underscore forms are not among the   *)
(* texts of this model.  The value is an integer number of thousandths.    *)
(***************************************************************************)
RECURSIVE DigitsValue(_)
DigitsValue(s) ==
  IF s = <<>> THEN 0 ELSE 10 * DigitsValue(SubSeq(s, 1, Len(s) - 1)) + DigitVal(s[Len(s)])

AllDigits(s) == \A i \in 1..Len(s) : IsDigit(s[i])

DotAt(s) == IF \E i \in 1..Len(s) : s[i] = "."
            THEN CHOOSE i \in 1..Len(s) : s[i] = "." /\ \A j \in 1..(i - 1) : s[j] # "."
            ELSE 0

FracThousandths(f) ==
  IF Len(f) = 0 THEN 0
  ELSE IF Len(f) = 1 THEN 100 * DigitsValue(f)
  ELSE IF Len(f) = 2 THEN 10 * DigitsValue(f)
  ELSE DigitsValue(f)

UnsignedFloat(s) ==
  LET d == DotAt(s)
      ip == IF d = 0 THEN s ELSE SubSeq(s, 1, d - 1)
      fp == IF d = 0 THEN <<>> ELSE SubSeq(s, d + 1, Len(s))
  IN IF AllDigits(ip) /\ AllDigits(fp) /\ Len(ip) + Len(fp) > 0 /\ Len(fp) <= 3
     THEN Some(1000 * DigitsValue(ip) + FracThousandths(fp))
     ELSE None

ParseFloat(s) ==
  LET t == Strip(s) IN
  IF t = <<>> THEN None
  ELSE IF Head(t) = "-"
       THEN (LET u == UnsignedFloat(Tail(t)) IN IF u = None THEN None ELSE Some(0 - u[1]))
  ELSE IF Head(t) = "+" THEN UnsignedFloat(Tail(t))
  ELSE UnsignedFloat(t)

(***************************************************************************)
(* round(n, 2) for n = k/1000 > 0.  The double nearest to k/1000 has the   *)
(* 53-bit significand M = round(k * 2^e / 1000); it lies below k/1000 when *)
(* the remainder (k * 2^e) mod 1000 is under 500 and above it otherwise,   *)
(* and round() rounds that double's exact value, half to even.             *)
(***************************************************************************)
RECURSIVE Pow2Mod1000(_)
Pow2Mod1000(e) == IF e = 0 THEN 1 ELSE (2 * Pow2Mod1000(e - 1)) % 1000

RECURSIVE ShiftUp(_, _)
\* least j with k * 2^j >= 1000, for 0 < k < 1000
ShiftUp(k, j) == IF k >= 1000 THEN j ELSE ShiftUp(2 * k, j + 1)

RECURSIVE ShiftDown(_, _)
\* greatest p with 1000 * 2^p <= k, for k >= 1000
ShiftDown(k, p) == IF k < 2000 THEN p ELSE ShiftDown(k \div 2, p + 1)

BinaryExponent(k) == IF k >= 1000 THEN 52 - ShiftDown(k, 0) ELSE 52 + ShiftUp(k, 0)

DoubleRemainder(k) == ((k % 1000) * Pow2Mod1000(BinaryExponent(k))) % 1000

Round2(k) ==
  LET q == k \div 10
      d == k % 10
      r == DoubleRemainder(k)
  IN IF d < 5 THEN q
     ELSE IF d > 5 THEN q + 1
     ELSE IF r = 0 THEN (IF q % 2 = 0 THEN q ELSE q + 1)
     ELSE IF r < 500 THEN q ELSE q + 1

\* parse_amount: Some(hundredths) or None
parse_amount(text) ==
  LET n == ParseFloat(ReplaceComma(text)) IN
  IF n = None THEN None
  ELSE IF n[1] > 0 THEN Some(Round2(n[1])) ELSE None

\* "amt is None" in place of "not amt"
Falsy_none_only(amt) == amt = None

\* "not amt" in handle_text: None and 0.0 are both falsy
Falsy(amt) == amt = None \/ amt[1] = 0

\* f"{x:.2f}" of an amount in hundredths
RECURSIVE DigitsOf(_)
DigitsOf(n) == IF n < 10 THEN <<Digits[n + 1]>> ELSE Append(DigitsOf(n \div 10), Digits[(n % 10) + 1])

Format2f(h) == DigitsOf(h \div 100) \o <<".">> \o <<Digits[((h \div 10) % 10) + 1], Digits[(h % 10) + 1]>>

(***************************************************************************)
(* Configuration and bounds.                                               *)
(***************************************************************************)
\* ALLOWED_TG_IDS: the stripped, non-empty entries of the environment list
ALLOWED_TG_IDS == {<<"1", "7">>, <<"2", "5">>}

\* str(tg_user_id)
Str(n) == DigitsOf(n)

\* s occurs in t as a run of consecutive characters
Substring(s, t) == \E i \in 0..(Len(t) - Len(s)) : SubSeq(t, i + 1, i + Len(s)) = s

\* the allow-list kept as the unsplit environment string: "in" is then a
\* substring test
is_allowed_unsplit(tg_user_id) == \E a \in ALLOWED_TG_IDS : Substring(Str(tg_user_id), a)

is_allowed(tg_user_id) == Str(tg_user_id) \in ALLOWED_TG_IDS

\* the Telegram user ids; 7 is not in the allow-list
TgIds == {17, 25, 7}

\* the senders of Spec: one allowed user and one that is not
Senders == {17, 7}

\* message.chat.id: the bot is used in private chats, where the chat id is
\* the id of the sender
ChatsOf(tg) == {tg}

MaxExpenses == 2

MaxStagings == 2

AddExpenseText == <<"A", "d", "d", " ", "e", "x", "p", "e", "n", "s", "e">>

SeeExpensesText == <<"S", "e", "e", " ", "e", "x", "p", "e", "n", "s", "e", "s">>

SeeLastMonthText == <<"S", "e", "e", " ", "l", "a", "s", "t", " ", "m", "o", "n", "t", "h">>

StartText == <<"/", "s", "t", "a", "r", "t">>

\* the message texts of the model: the three buttons (one with surrounding
\* whitespace), two valid amounts (one with a comma, a tie that is exact in
\* binary), a positive amount that rounds to 0.00, a blank text, and a free
\* text with whitespace runs that is no amount and normalizes to a button
\* label
Texts == {
  <<" ">> \o AddExpenseText \o <<"\n">>,
  SeeExpensesText,
  SeeLastMonthText,
  <<"2", "3", ".", "5">>,
  <<"0", ",", "1", "2", "5">>,
  <<"0", ".", "0", "0", "4">>,
  <<" ", " ">>,
  <<" ", "A", "d", "d", " ", " ", "e", "x", "p", "e", "n", "s", "e", " ">> }

(***************************************************************************)
(* The record store.  A context cx carries the four tables (users, state,  *)
(* expenses, totals) and the trace of the store calls made so far in this  *)
(* invocation.                                                             *)
(***************************************************************************)
\* the outcome of the next store call; a call past the end of out succeeds
NextOk(cx, out) == IF Len(cx.calls) < Len(out) THEN out[Len(cx.calls) + 1] ELSE TRUE

\* supa_exec: runs the query, logs a problem, never throws
supa_exec(cx, out, label) ==
  [cx EXCEPT !.calls = Append(@, [label |-> label, ok |-> NextOk(cx, out)])]

UserRows(cx, tg_user_id) == {u \in cx.users : u.tg_user_id = tg_user_id}

\* exp_users.id is assigned by the store; rows are never deleted
NewUserId(cx) == Cardinality(cx.users) + 1

\* ensure_user: [cx, id], id = Some(exp_users.id) or None
ensure_user(cx, out, tg_user_id, chat_id) ==
  IF ~is_allowed(tg_user_id) THEN [cx |-> cx, id |-> None]
  ELSE
    LET c1 == supa_exec(cx, out, "exp_users.select")
        found == UserRows(cx, tg_user_id)
    IN IF ~NextOk(cx, out) THEN [cx |-> c1, id |-> None]
       ELSE IF found # {}
       THEN LET row == CHOOSE u \in found : TRUE
                c2 == supa_exec(c1, out, "exp_users.update")
                upd == {IF u.id = row.id THEN [u EXCEPT !.tg_chat_id = chat_id] ELSE u
                          : u \in c1.users}
            IN [cx |-> IF NextOk(c1, out) THEN [c2 EXCEPT !.users = upd] ELSE c2,
                id |-> Some(row.id)]
       ELSE LET c2 == supa_exec(c1, out, "exp_users.insert")
                new == [id |-> NewUserId(c1), tg_user_id |-> tg_user_id, tg_chat_id |-> chat_id]
            IN IF NextOk(c1, out)
               THEN [cx |-> [c2 EXCEPT !.users = @ \cup {new}], id |-> Some(new.id)]
               ELSE [cx |-> c2, id |-> None]

\* set_state as an update that leaves a column out when its value is None
set_state_partial(cx, out, clock, user_id, action, temp_amount) ==
  LET c1 == supa_exec(cx, out, "exp_bot_state.upsert")
      old == {r \in cx.state : r.user_id = user_id}
      kept == IF temp_amount = None /\ old # {}
              THEN (CHOOSE r \in old : TRUE).temp_amount ELSE temp_amount
      row == [user_id |-> user_id, pending_action |-> action,
              temp_amount |-> kept, updated_at |-> clock]
  IN IF NextOk(cx, out)
     THEN [c1 EXCEPT !.state = {r \in @ : r.user_id # user_id} \cup {row}]
     ELSE c1

\* set_state: upsert on conflict user_id; the error, if any, is dropped
set_state(cx, out, clock, user_id, action, temp_amount) ==
  LET c1 == supa_exec(cx, out, "exp_bot_state.upsert")
      row == [user_id |-> user_id, pending_action |-> action,
              temp_amount |-> temp_amount, updated_at |-> clock]
  IN IF NextOk(cx, out)
     THEN [c1 EXCEPT !.state = {r \in @ : r.user_id # user_id} \cup {row}]
     ELSE c1

\* get_state: [cx, state], state = Some(row) or None; an error reads as None
get_state(cx, out, user_id) ==
  LET c1 == supa_exec(cx, out, "exp_bot_state.select")
      found == {r \in cx.state : r.user_id = user_id}
  IN [cx |-> c1,
      state |-> IF NextOk(cx, out) /\ found # {}
                THEN Some(CHOOSE r \in found : TRUE) ELSE None]

\* clear_state with the user filter left out
clear_state_all(cx, out, user_id) ==
  LET c1 == supa_exec(cx, out, "exp_bot_state.delete")
  IN IF NextOk(cx, out) THEN [c1 EXCEPT !.state = {}] ELSE c1

\* clear_state with the delete left out
clear_state_kept(cx, out, user_id) == supa_exec(cx, out, "exp_bot_state.delete")

\* clear_state: delete the user's row; the error, if any, is dropped
clear_state(cx, out, user_id) ==
  LET c1 == supa_exec(cx, out, "exp_bot_state.delete")
  IN IF NextOk(cx, out)
     THEN [c1 EXCEPT !.state = {r \in @ : r.user_id # user_id}]
     ELSE c1

\* the insert with its error dropped, as the errors of set_state are
insert_expense_unchecked(cx, out, clock, user_id, amount, title) ==
  LET c1 == supa_exec(cx, out, "exp_expenses.insert")
      row == [user_id |-> user_id, amount |-> amount, title |-> title, created_at |-> clock]
  IN IF NextOk(cx, out)
     THEN [cx |-> [c1 EXCEPT !.expenses = Append(@, row)], err |-> FALSE]
     ELSE [cx |-> c1, err |-> FALSE]

\* the insert of handle_text's await_title branch: [cx, err]
insert_expense(cx, out, clock, user_id, amount, title) ==
  LET c1 == supa_exec(cx, out, "exp_expenses.insert")
      row == [user_id |-> user_id, amount |-> amount, title |-> title, created_at |-> clock]
  IN IF NextOk(cx, out)
     THEN [cx |-> [c1 EXCEPT !.expenses = Append(@, row)], err |-> FALSE]
     ELSE [cx |-> c1, err |-> TRUE]

(***************************************************************************)
(* Outbound messages: [msg, args, kb], msg the fixed wording, args the     *)
(* formatted values it carries, kb whether the keyboard is attached.       *)
(***************************************************************************)
Reply(msg, args, kb) == [msg |-> msg, args |-> args, kb |-> kb]

DeniedMsg == Reply("This bot is private. Access denied.", <<>>, FALSE)

AccessErrorMsg == Reply("Access error (not whitelisted in DB).", <<>>, FALSE)

WelcomeMsg == Reply("Welcome! Use the buttons below", <<>>, TRUE)

AmountPromptMsg == Reply("Send the amount (e.g., 23.50)", <<>>, FALSE)

InvalidAmountMsg == Reply("Invalid amount. Try again, e.g. 12.30", <<>>, FALSE)

AmountOkMsg(amt) == Reply("Amount: {amt:.2f} Now send the title (e.g., Groceries)", <<Format2f(amt)>>, FALSE)

EmptyTitleMsg == Reply("Title can't be empty. Send a short title.", <<>>, FALSE)

SaveFailedMsg == Reply("Save failed. Check logs.", <<>>, FALSE)

SavedMsg(amt, title) == Reply("Saved {temp_amount:.2f} - {title}", <<Format2f(amt), title>>, TRUE)

HelpMsg == Reply("Use the buttons below to add or view expenses.", <<>>, TRUE)

(***************************************************************************)
(* Dates: a timestamp is [year, month, day]; isoformat() strings compare   *)
(* as the dates do.                                                        *)
(***************************************************************************)
Pad2(n) == IF n < 10 THEN <<"0">> \o DigitsOf(n) ELSE DigitsOf(n)

Pad4(n) == IF n < 10 THEN <<"0", "0", "0">> \o DigitsOf(n)
           ELSE IF n < 100 THEN <<"0", "0">> \o DigitsOf(n)
           ELSE IF n < 1000 THEN <<"0">> \o DigitsOf(n)
           ELSE DigitsOf(n)

\* datetime(now.year, now.month, 1)
FirstOfMonth(clock) == [year |-> clock.year, month |-> clock.month, day |-> 1]

\* created_at >= first_iso
DateGte(a, b) ==
  \/ a.year > b.year
  \/ a.year = b.year /\ a.month > b.month
  \/ a.year = b.year /\ a.month = b.month /\ a.day >= b.day

\* created_at[5:10], "MM-DD"
MonthDay(d) == Pad2(d.month) \o <<"-">> \o Pad2(d.day)

\* the previous month number with the year left as it is
LastMonthStart_same_year(clock) ==
  [year |-> clock.year,
   month |-> IF clock.month - 1 # 0 THEN clock.month - 1 ELSE 12,
   day |-> 1]

\* the month start of the previous calendar month
LastMonthStart(clock) ==
  [year |-> IF clock.month # 1 THEN clock.year ELSE clock.year - 1,
   month |-> IF clock.month - 1 # 0 THEN clock.month - 1 ELSE 12,
   day |-> 1]

\* last_start[:7], "YYYY-MM"
YearMonth(d) == Pad4(d.year) \o <<"-">> \o Pad2(d.month)

(***************************************************************************)
(* The branches of handle_text; each returns [cx, sent].                   *)
(***************************************************************************)
\* "Add expense" that starts an entry only when none awaits its title
add_expense_if_free(cx, out, clock, user_id) ==
  IF \E r \in cx.state : r.user_id = user_id /\ r.pending_action = "await_title"
  THEN [cx |-> supa_exec(cx, out, "exp_bot_state.upsert"), sent |-> <<AmountPromptMsg>>]
  ELSE [cx |-> set_state(cx, out, clock, user_id, "await_amount", None),
        sent |-> <<AmountPromptMsg>>]

\* text == "Add expense"
add_expense(cx, out, clock, user_id) ==
  [cx |-> set_state(cx, out, clock, user_id, "await_amount", None),
   sent |-> <<AmountPromptMsg>>]

RECURSIVE Reverse(_)
Reverse(s) == IF s = <<>> THEN <<>> ELSE Append(Reverse(Tail(s)), Head(s))

RECURSIVE SelectRows(_, _, _)
\* the user's rows with created_at >= since, in insertion order
SelectRows(rows, user_id, since) ==
  IF rows = <<>> THEN <<>>
  ELSE IF Head(rows).user_id = user_id /\ DateGte(Head(rows).created_at, since)
       THEN <<Head(rows)>> \o SelectRows(Tail(rows), user_id, since)
       ELSE SelectRows(Tail(rows), user_id, since)

\* .limit(n)
Limit(s, n) == IF Len(s) <= n THEN s ELSE SubSeq(s, 1, n)

\* the total taken over the rows of the listing
SumAmounts_listed(rows) ==
  LET Sum[i \in 0..Len(rows)] ==
        IF i = 0 THEN 0 ELSE Sum[i - 1] + (IF i > Len(rows) - 10 THEN rows[i].amount[1] ELSE 0)
  IN Sum[Len(rows)]

RECURSIVE SumAmounts(_)
SumAmounts(rows) ==
  IF rows = <<>> THEN 0 ELSE Head(rows).amount[1] + SumAmounts(Tail(rows))

RECURSIVE ItemLines(_)
ItemLines(items) ==
  IF items = <<>> THEN <<>>
  ELSE <<Format2f(Head(items).amount[1]), Head(items).title, MonthDay(Head(items).created_at)>>
       \o ItemLines(Tail(items))

NoItemsLine == <<"(", "n", "o", " ", "i", "t", "e", "m", "s", " ", "y", "e", "t", ")">>

\* text == "See expenses"
see_expenses(cx, out, clock, user_id) ==
  LET first_iso == FirstOfMonth(clock)
      monthRows == SelectRows(cx.expenses, user_id, first_iso)
      c1 == supa_exec(cx, out, "exp_expenses.list_this_month")
      items == IF NextOk(cx, out) THEN Limit(Reverse(monthRows), 10) ELSE <<>>
      c2 == supa_exec(c1, out, "exp_expenses.amounts_this_month")
      all_rows == IF NextOk(c1, out) THEN monthRows ELSE <<>>
      total == SumAmounts(all_rows)
      lines == IF items # <<>> THEN ItemLines(items) ELSE <<NoItemsLine>>
  IN [cx |-> c2,
      sent |-> <<Reply("This month total: {total:.2f}", <<Format2f(total)>> \o lines, TRUE)>>]

\* see_last_month that also ends the entry in progress
see_last_month_reset(cx, out, clock, user_id) ==
  LET last_start == LastMonthStart(clock)
      c1 == supa_exec(cx, out, "exp_monthly_totals.get_last")
      found == {t \in cx.totals : t.user_id = user_id /\ t.month_start = last_start}
      total == IF NextOk(cx, out) /\ found # {}
               THEN (CHOOSE t \in found : TRUE).total ELSE 0
  IN [cx |-> clear_state(c1, out, user_id),
      sent |-> <<Reply("Your expenses for {last_start[:7]}: {total:.2f}",
                       <<YearMonth(last_start), Format2f(total)>>, TRUE)>>]

\* text == "See last month"
see_last_month(cx, out, clock, user_id) ==
  LET last_start == LastMonthStart(clock)
      c1 == supa_exec(cx, out, "exp_monthly_totals.get_last")
      found == {t \in cx.totals : t.user_id = user_id /\ t.month_start = last_start}
      total == IF NextOk(cx, out) /\ found # {}
               THEN (CHOOSE t \in found : TRUE).total ELSE 0
  IN [cx |-> c1,
      sent |-> <<Reply("Your expenses for {last_start[:7]}: {total:.2f}",
                       <<YearMonth(last_start), Format2f(total)>>, TRUE)>>]

\* await_amount without the return after the corrective prompt: the run
\* goes on to the fallback
await_amount_no_return(cx, out, clock, user_id, text) ==
  LET amt == parse_amount(text) IN
  IF Falsy(amt) THEN [cx |-> cx, sent |-> <<InvalidAmountMsg, HelpMsg>>]
  ELSE [cx |-> set_state(cx, out, clock, user_id, "await_title", amt),
        sent |-> <<AmountOkMsg(amt[1])>>]

\* state.pending_action == "await_amount"
await_amount(cx, out, clock, user_id, text) ==
  LET amt == parse_amount(text) IN
  IF Falsy(amt) THEN [cx |-> cx, sent |-> <<InvalidAmountMsg>>]
  ELSE [cx |-> set_state(cx, out, clock, user_id, "await_title", amt),
        sent |-> <<AmountOkMsg(amt[1])>>]

\* await_title that gives the entry up on an empty title
await_title_cancel(cx, out, clock, user_id, state, text) ==
  LET title == NormalizeTitle(text) IN
  IF title = <<>> THEN [cx |-> clear_state(cx, out, user_id), sent |-> <<EmptyTitleMsg>>]
  ELSE LET ins == insert_expense(cx, out, clock, user_id, state.temp_amount, title) IN
       IF ins.err THEN [cx |-> ins.cx, sent |-> <<SaveFailedMsg>>]
       ELSE [cx |-> clear_state(ins.cx, out, user_id),
             sent |-> <<SavedMsg(state.temp_amount[1], title)>>]

\* state.pending_action == "await_title"
await_title(cx, out, clock, user_id, state, text) ==
  LET title == NormalizeTitle(text) IN
  IF title = <<>> THEN [cx |-> cx, sent |-> <<EmptyTitleMsg>>]
  ELSE LET ins == insert_expense(cx, out, clock, user_id, state.temp_amount, title) IN
       IF ins.err THEN [cx |-> ins.cx, sent |-> <<SaveFailedMsg>>]
       ELSE [cx |-> clear_state(ins.cx, out, user_id),
             sent |-> <<SavedMsg(state.temp_amount[1], title)>>]

\* the state machine (amount -> title) and the fallback
state_machine(cx, out, clock, user_id, text) ==
  LET gs == get_state(cx, out, user_id) IN
  IF gs.state # None /\ gs.state[1].pending_action = "await_amount"
  THEN await_amount(gs.cx, out, clock, user_id, text)
  ELSE IF gs.state # None /\ gs.state[1].pending_action = "await_title"
  THEN await_title(gs.cx, out, clock, user_id, gs.state[1], text)
  ELSE [cx |-> gs.cx, sent |-> <<HelpMsg>>]

\* handle_text with the state machine consulted before the buttons
handle_text_state_first(cx, out, clock, tg_user_id, chat_id, raw) ==
  LET text == Strip(raw) IN
  IF ~is_allowed(tg_user_id) THEN [cx |-> cx, sent |-> <<DeniedMsg>>]
  ELSE LET eu == ensure_user(cx, out, tg_user_id, chat_id) IN
       IF eu.id = None THEN [cx |-> eu.cx, sent |-> <<AccessErrorMsg>>]
       ELSE IF \E r \in eu.cx.state : r.user_id = eu.id[1]
       THEN state_machine(eu.cx, out, clock, eu.id[1], text)
       ELSE IF text = AddExpenseText THEN add_expense(eu.cx, out, clock, eu.id[1])
       ELSE IF text = SeeExpensesText THEN see_expenses(eu.cx, out, clock, eu.id[1])
       ELSE IF text = SeeLastMonthText THEN see_last_month(eu.cx, out, clock, eu.id[1])
       ELSE state_machine(eu.cx, out, clock, eu.id[1], text)

\* handle_text: [cx, sent]
handle_text(cx, out, clock, tg_user_id, chat_id, raw) ==
  LET text == Strip(raw) IN
  IF ~is_allowed(tg_user_id) THEN [cx |-> cx, sent |-> <<DeniedMsg>>]
  ELSE LET eu == ensure_user(cx, out, tg_user_id, chat_id) IN
       IF eu.id = None THEN [cx |-> eu.cx, sent |-> <<AccessErrorMsg>>]
       ELSE IF text = AddExpenseText THEN add_expense(eu.cx, out, clock, eu.id[1])
       ELSE IF text = SeeExpensesText THEN see_expenses(eu.cx, out, clock, eu.id[1])
       ELSE IF text = SeeLastMonthText THEN see_last_month(eu.cx, out, clock, eu.id[1])
       ELSE state_machine(eu.cx, out, clock, eu.id[1], text)

\* cmd_start (/start, /help): [cx, sent]
cmd_start(cx, out, tg_user_id, chat_id) ==
  IF ~is_allowed(tg_user_id) THEN [cx |-> cx, sent |-> <<DeniedMsg>>]
  ELSE LET eu == ensure_user(cx, out, tg_user_id, chat_id) IN
       IF eu.id = None THEN [cx |-> eu.cx, sent |-> <<AccessErrorMsg>>]
       ELSE [cx |-> eu.cx, sent |-> <<WelcomeMsg>>]

(***************************************************************************)
(* The state machine of the program: the four tables of the record store   *)
(* and the clock.  stagings counts, per exp_users.id, the handled messages *)
(* that moved the user's pending action from await_amount to await_title;  *)
(* it is kept by SpecStagings and left at 0 by Spec.  inflight holds the    *)
(* handler invocations that are between two store calls, alone the store   *)
(* each user would have were its messages the only ones handled, staged    *)
(* the (owner, amount) pairs that have been persisted as staged amounts;   *)
(* arg and ret hold the input and the result of a function applied on its  *)
(* own.  Each of them is kept by the specifications that need it.          *)
(***************************************************************************)
Clock0 == [year |-> 2026, month |-> 1, day |-> 15]

\* a store a previous run left behind: a user whose identity is no longer
\* in the allow-list, with a pending action, and a precomputed total for
\* the month before Clock0
LegacyUsers == {[id |-> 1, tg_user_id |-> 7, tg_chat_id |-> 7]}

LegacyState == {[user_id |-> 1, pending_action |-> "await_amount", temp_amount |-> None,
                 updated_at |-> LastMonthStart(Clock0)]}

LegacyTotals == {[user_id |-> 2, month_start |-> LastMonthStart(Clock0), total |-> 4200]}

UserIds == 1..Cardinality(TgIds)

\* the worker threads of the polling loop
Procs == {1, 2}

\* no handler invocation has started
NoneInFlight ==
  /\ inflight = [p \in Procs |-> [pc |-> "idle"]]
  /\ alone = <<>>
  /\ staged = {}

\* no function has been applied on its own
NothingApplied == arg = None /\ ret = None

Init ==
  /\ \/ exp_users = {} /\ exp_bot_state = {} /\ exp_monthly_totals = {}
     \/ exp_users = LegacyUsers /\ exp_bot_state = LegacyState
        /\ exp_monthly_totals = LegacyTotals
  /\ exp_expenses = <<>>
  /\ now = Clock0
  /\ stagings = [u \in UserIds |-> 0]
  /\ NoneInFlight
  /\ NothingApplied

Cx0 == [users |-> exp_users, state |-> exp_bot_state, expenses |-> exp_expenses,
        totals |-> exp_monthly_totals, calls |-> <<>>]

\* a handler run on the store of cx, with a fresh call trace
Fresh(cx) == [cx EXCEPT !.calls = <<>>]

RunText(cx, tg, chat, text, out) ==
  handle_text(Fresh(cx), out, now, tg, chat, text)

RunStart(cx, tg, chat, out) == cmd_start(Fresh(cx), out, tg, chat)

\* out with the calls up to the k-th succeeding and the k-th failing
FailAt(out, k) == [i \in 1..k |-> IF i <= Len(out) THEN out[i] ELSE i # k]

\* every run of the handler whose outcomes start with out: the run in
\* which the later calls succeed and, for each of those calls, the runs in
\* which it is the next to fail
RECURSIVE TextRuns(_, _, _, _, _)
TextRuns(cx, tg, chat, text, out) ==
  LET res == RunText(cx, tg, chat, text, out) IN
  {res} \cup UNION {TextRuns(cx, tg, chat, text, FailAt(out, k))
                     : k \in (Len(out) + 1)..Len(res.cx.calls)}

RECURSIVE StartRuns(_, _, _, _)
StartRuns(cx, tg, chat, out) ==
  LET res == RunStart(cx, tg, chat, out) IN
  {res} \cup UNION {StartRuns(cx, tg, chat, FailAt(out, k))
                     : k \in (Len(out) + 1)..Len(res.cx.calls)}

PendingOf(state, user_id) == {r.pending_action : r \in {x \in state : x.user_id = user_id}}

\* the run moved user_id from await_amount to await_title
Staged(res, user_id) ==
  /\ PendingOf(exp_bot_state, user_id) = {"await_amount"}
  /\ PendingOf(res.cx.state, user_id) = {"await_title"}

\* the store after a handler run
Commit(res) ==
  /\ Len(res.cx.expenses) <= MaxExpenses
  /\ exp_users' = res.cx.users
  /\ exp_bot_state' = res.cx.state
  /\ exp_expenses' = res.cx.expenses
  /\ exp_monthly_totals' = res.cx.totals
  /\ UNCHANGED <<now, inflight, alone, staged, arg, ret>>

\* one text message handled from start to end
HandleText ==
  \E tg \in Senders : \E chat \in ChatsOf(tg) : \E text \in Texts :
    \E res \in TextRuns(Cx0, tg, chat, text, <<>>) :
      /\ Commit(res)
      /\ UNCHANGED stagings

\* one /start or /help command handled from start to end
CmdStart ==
  \E tg \in Senders : \E chat \in ChatsOf(tg) :
    \E res \in StartRuns(Cx0, tg, chat, <<>>) :
      /\ Commit(res)
      /\ UNCHANGED stagings

Next == HandleText \/ CmdStart

Spec == Init /\ [][Next]_vars

\* the same steps with the stagings counted
Counted(res) ==
  LET counted == [u \in UserIds |-> stagings[u] + (IF Staged(res, u) THEN 1 ELSE 0)] IN
  /\ \A u \in UserIds : counted[u] <= MaxStagings
  /\ stagings' = counted

HandleTextCounted ==
  \E tg \in Senders : \E chat \in ChatsOf(tg) : \E text \in Texts :
    \E res \in TextRuns(Cx0, tg, chat, text, <<>>) :
      /\ Commit(res)
      /\ Counted(res)

CmdStartCounted ==
  \E tg \in Senders : \E chat \in ChatsOf(tg) :
    \E res \in StartRuns(Cx0, tg, chat, <<>>) :
      /\ Commit(res)
      /\ Counted(res)

NextCounted == HandleTextCounted \/ CmdStartCounted

SpecStagings == Init /\ [][NextCounted]_vars

(***************************************************************************)
(* parse_amount applied on its own: arg is the text, ret the result once   *)
(* it has been computed.                                                   *)
(***************************************************************************)
\* the store before the first contact, with no invocation in flight
EmptyStore ==
  /\ exp_users = {} /\ exp_bot_state = {} /\ exp_monthly_totals = {}
  /\ exp_expenses = <<>>
  /\ now = Clock0
  /\ stagings = [u \in UserIds |-> 0]
  /\ NoneInFlight

Signs == {<<>>, <<"-">>}

IntParts == {<<>>, <<"0">>, <<"2">>, <<"1", "2">>}

Separators == {<<".">>, <<",">>}

FracParts == {<<>>, <<"0">>, <<"5">>, <<"0", "0">>, <<"5", "0">>, <<"0", "0", "4">>,
              <<"0", "0", "5">>, <<"0", "1", "5">>, <<"1", "2", "5">>, <<"3", "4", "5">>,
              <<"6", "7", "5">>}

\* texts that float() refuses whatever the separator
NonNumeric == {<<"a", "b", "c">>, <<"1", "2", "a">>, <<"1", ".", "2", ".", "3">>,
               <<"1", ",", "2", ".", "3">>, <<"1", " ", "2">>}

\* the texts parse_amount is applied to
ParseInputs ==
  {sg \o ip : sg \in Signs, ip \in IntParts}
  \cup {sg \o ip \o sep \o fp : sg \in Signs, ip \in IntParts, sep \in Separators, fp \in FracParts}
  \cup NonNumeric

InitParse == EmptyStore /\ arg \in ParseInputs /\ ret = None

ApplyParse ==
  /\ ret = None
  /\ ret' = Some(parse_amount(arg))
  /\ UNCHANGED <<exp_users, exp_bot_state, exp_expenses, exp_monthly_totals, now, stagings,
                 inflight, alone, staged, arg>>

SpecParse == InitParse /\ [][ApplyParse]_vars

(***************************************************************************)
(* set_state applied on its own, call after call: arg holds, per owner,    *)
(* the arguments of the last call that succeeded, ret the number of calls  *)
(* that succeeded.                                                         *)
(***************************************************************************)
MaxCalls == 2

\* the values set_state is called with, and some it is never called with
Actions == {"await_amount", "await_title"}

Amounts == {None, Some(12), Some(2350)}

InitSetState ==
  /\ exp_users = LegacyUsers /\ exp_monthly_totals = {}
  /\ exp_bot_state \in {{}, LegacyState}
  /\ exp_expenses = <<>>
  /\ now = Clock0
  /\ stagings = [u \in UserIds |-> 0]
  /\ NoneInFlight
  /\ arg = [u \in UserIds |-> None]
  /\ ret = [u \in UserIds |-> 0]

ApplySetState ==
  \E u \in UserIds : \E action \in Actions : \E amount \in Amounts : \E ok \in BOOLEAN :
    /\ ret[u] < MaxCalls
    /\ exp_bot_state' = set_state(Cx0, <<ok>>, now, u, action, amount).state
    /\ arg' = IF ok THEN [arg EXCEPT ![u] = Some(<<action, amount>>)] ELSE arg
    /\ ret' = IF ok THEN [ret EXCEPT ![u] = @ + 1] ELSE ret
    /\ UNCHANGED <<exp_users, exp_expenses, exp_monthly_totals, now, stagings,
                   inflight, alone, staged>>

SpecSetState == InitSetState /\ [][ApplySetState]_vars

(***************************************************************************)
(* The reports handled on their own: ret holds the run of the handler once *)
(* the message has been handled.                                           *)
(***************************************************************************)
\* datetime.now(timezone.utc) at the moment of the request
Clocks == {[year |-> y, month |-> m, day |-> d] : y \in {2025, 2026}, m \in 1..12, d \in {1, 28}}

MonthStartOf(y, m) == [year |-> y, month |-> m, day |-> 1]

\* contents of exp_monthly_totals, which an external job fills
TotalsChoices ==
  { {},
    LegacyTotals,
    {[user_id |-> 2, month_start |-> MonthStartOf(2025, 12), total |-> 4200],
     [user_id |-> 2, month_start |-> MonthStartOf(2026, 1), total |-> 100],
     [user_id |-> 2, month_start |-> MonthStartOf(2026, 12), total |-> 555],
     [user_id |-> 1, month_start |-> MonthStartOf(2025, 12), total |-> 999]},
    {[user_id |-> 1, month_start |-> MonthStartOf(2026, 12), total |-> 555],
     [user_id |-> 1, month_start |-> MonthStartOf(2026, 3), total |-> 1]} }

InitLastMonth ==
  /\ exp_users \in {{}, LegacyUsers}
  /\ exp_bot_state = {}
  /\ exp_monthly_totals \in TotalsChoices
  /\ exp_expenses = <<>>
  /\ now \in Clocks
  /\ stagings = [u \in UserIds |-> 0]
  /\ NoneInFlight
  /\ NothingApplied

\* the store and the run after a message handled on its own
Applied(res) ==
  /\ exp_users' = res.cx.users
  /\ exp_bot_state' = res.cx.state
  /\ exp_expenses' = res.cx.expenses
  /\ exp_monthly_totals' = res.cx.totals
  /\ ret' = Some(res)
  /\ UNCHANGED <<now, stagings, inflight, alone, staged, arg>>

ApplySeeLastMonth ==
  /\ ret = None
  /\ \E res \in TextRuns(Cx0, 17, 17, SeeLastMonthText, <<>>) : Applied(res)

SpecLastMonth == InitLastMonth /\ [][ApplySeeLastMonth]_vars

(***************************************************************************)
(* 'See expenses' after a run of inserts.  Each insert is the one of the   *)
(* await_title branch, made at the current time, and a day passes before   *)
(* the next; both users have made contact before.                          *)
(***************************************************************************)
MaxRows == 11

TwoUsers == LegacyUsers \cup {[id |-> 2, tg_user_id |-> 17, tg_chat_id |-> 17]}

\* the title of the rows
RowTitle == <<"T", "e", "a">>

\* rows outside the report: one of last month, one of the other user
OtherRows ==
  << [user_id |-> 2, amount |-> Some(700), title |-> RowTitle,
      created_at |-> [year |-> 2025, month |-> 12, day |-> 31]],
     [user_id |-> 1, amount |-> Some(900), title |-> RowTitle,
      created_at |-> [year |-> 2026, month |-> 1, day |-> 2]] >>

\* the amounts of the inserted rows
RowAmounts == {5, 1999}

InitReport ==
  /\ exp_users = TwoUsers
  /\ exp_bot_state = {}
  /\ exp_monthly_totals = {}
  /\ exp_expenses \in {<<>>, OtherRows}
  /\ now = Clock0
  /\ stagings = [u \in UserIds |-> 0]
  /\ NoneInFlight
  /\ NothingApplied

InsertRow ==
  \E a \in RowAmounts :
    /\ ret = None
    /\ Len(SelectRows(exp_expenses, 2, FirstOfMonth(now))) < MaxRows
    /\ exp_expenses' = insert_expense(Cx0, <<TRUE>>, now, 2, Some(a), RowTitle).cx.expenses
    /\ now' = [now EXCEPT !.day = @ + 1]
    /\ UNCHANGED <<exp_users, exp_bot_state, exp_monthly_totals, stagings,
                   inflight, alone, staged, arg, ret>>

ApplySeeExpenses ==
  /\ ret = None
  /\ \E res \in TextRuns(Cx0, 17, 17, SeeExpensesText, <<>>) : Applied(res)

NextReport == InsertRow \/ ApplySeeExpenses

SpecReport == InitReport /\ [][NextReport]_vars

(***************************************************************************)
(* Vocabulary of the properties.                                           *)
(***************************************************************************)
\* the text is one of the three fixed commands
IsCommand(text) == Strip(text) \in {AddExpenseText, SeeExpensesText, SeeLastMonthText}

\* the identity is in the allow-list
Allowed(tg) == Str(tg) \in ALLOWED_TG_IDS

\* the exp_users.id of a Telegram user, 0 when there is no row
IdOf(users, tg) ==
  IF \E u \in users : u.tg_user_id = tg
  THEN (CHOOSE u \in users : u.tg_user_id = tg).id ELSE 0

\* the PendingAction of a user: the (action_kind, staged_amount) pairs of
\* its rows; the empty set is IDLE
Pending(state, user_id) ==
  {<<r.pending_action, r.temp_amount>> : r \in {x \in state : x.user_id = user_id}}

ExpensesOf(expenses, user_id) == SelectSeq(expenses, LAMBDA e : e.user_id = user_id)

\* every store call of the run succeeded
AllOk(res) == \A i \in 1..Len(res.cx.calls) : res.cx.calls[i].ok

\* the store call with this label was made and failed
Failed(res, label) ==
  \E i \in 1..Len(res.cx.calls) : res.cx.calls[i].label = label /\ ~res.cx.calls[i].ok

\* the store call with this label was made and succeeded
Succeeded(res, label) ==
  \E i \in 1..Len(res.cx.calls) : res.cx.calls[i].label = label /\ res.cx.calls[i].ok

\* the store call with this label was made
Called(res, label) == \E i \in 1..Len(res.cx.calls) : res.cx.calls[i].label = label

\* the free text of Texts and its normalized title
FreeText == <<" ", "A", "d", "d", " ", " ", "e", "x", "p", "e", "n", "s", "e", " ">>

FreeTitle == <<"A", "d", "d", " ", "e", "x", "p", "e", "n", "s", "e">>

(***************************************************************************)
(* Handler invocations interleaved at their store calls.  The polling loop *)
(* hands the messages to worker threads, and nothing in handle_text locks  *)
(* a user: an invocation in flight stands before the store call named by   *)
(* its pc and holds in uid and st what ensure_user and get_state returned  *)
(* to it.  arg gives the sender each thread serves.  alone[tg] is the      *)
(* world in which the messages of tg are the only ones: its store cx and   *)
(* its invocation inv take the calls of tg's thread, with the outcomes     *)
(* they have, and no call of another thread.  stagings and staged record   *)
(* the stagings of the users in the domain of stagings.                    *)
(***************************************************************************)
\* the messages sent while others are in flight
RaceTexts == {AddExpenseText, <<"2", "3", ".", "5">>, FreeText, SeeExpensesText, SeeLastMonthText}

Idle == [pc |-> "idle"]

\* first_call with the report buttons left out
first_call_no_reports(text) ==
  IF text = AddExpenseText THEN "exp_bot_state.upsert" ELSE "exp_bot_state.select"

\* the branch handle_text takes once ensure_user has returned an id
first_call(text) ==
  IF text = AddExpenseText THEN "exp_bot_state.upsert"
  ELSE IF text = SeeExpensesText THEN "exp_expenses.list_this_month"
  ELSE IF text = SeeLastMonthText THEN "exp_monthly_totals.get_last"
  ELSE "exp_bot_state.select"

\* the invocation has sent its message and returned
Return(cx, inv) == [cx |-> Fresh(cx), inv |-> Idle]

\* the invocation goes on to its next store call
Goto(cx, inv, pc) == [cx |-> Fresh(cx), inv |-> [inv EXCEPT !.pc = pc]]

\* the store call at inv.pc, with outcome ok, and the statements up to the
\* next store call: [cx, inv].  exp_users.tg_user_id is unique: an insert
\* for an identity that has a row by now is refused by the store
store_call(cx, inv, ok, clock) ==
  LET out == <<ok>> IN
  CASE inv.pc = "exp_users.select" ->
         IF ~ok THEN Return(cx, inv)
         ELSE IF UserRows(cx, inv.tg) # {}
         THEN Goto(cx, [inv EXCEPT !.uid = (CHOOSE u \in UserRows(cx, inv.tg) : TRUE).id],
                   "exp_users.update")
         ELSE Goto(cx, inv, "exp_users.insert")
    [] inv.pc = "exp_users.update" ->
         LET upd == {IF u.id = inv.uid THEN [u EXCEPT !.tg_chat_id = inv.chat] ELSE u
                       : u \in cx.users}
         IN Goto(IF ok THEN [cx EXCEPT !.users = upd] ELSE cx, inv, first_call(inv.text))
    [] inv.pc = "exp_users.insert" ->
         LET new == [id |-> NewUserId(cx), tg_user_id |-> inv.tg, tg_chat_id |-> inv.chat]
         IN IF ok /\ UserRows(cx, inv.tg) = {}
            THEN Goto([cx EXCEPT !.users = @ \cup {new}], [inv EXCEPT !.uid = new.id],
                      first_call(inv.text))
            ELSE Return(cx, inv)
    [] inv.pc = "exp_bot_state.upsert" ->
         IF inv.text = AddExpenseText
         THEN Return(set_state(cx, out, clock, inv.uid, "await_amount", None), inv)
         ELSE Return(set_state(cx, out, clock, inv.uid, "await_title", parse_amount(inv.text)),
                     inv)
    [] inv.pc = "exp_expenses.list_this_month" ->
         Goto(cx, inv, "exp_expenses.amounts_this_month")
    [] inv.pc = "exp_expenses.amounts_this_month" -> Return(cx, inv)
    [] inv.pc = "exp_monthly_totals.get_last" -> Return(cx, inv)
    [] inv.pc = "exp_bot_state.select" ->
         LET state == get_state(cx, out, inv.uid).state IN
         IF state # None /\ state[1].pending_action = "await_amount"
         THEN IF Falsy(parse_amount(inv.text)) THEN Return(cx, inv)
              ELSE Goto(cx, inv, "exp_bot_state.upsert")
         ELSE IF state # None /\ state[1].pending_action = "await_title"
         THEN IF NormalizeTitle(inv.text) = <<>> THEN Return(cx, inv)
              ELSE Goto(cx, [inv EXCEPT !.st = state], "exp_expenses.insert")
         ELSE Return(cx, inv)
    [] inv.pc = "exp_expenses.insert" ->
         LET ins == insert_expense(cx, out, clock, inv.uid, inv.st[1].temp_amount,
                                   NormalizeTitle(inv.text))
         IN IF ins.err THEN Return(ins.cx, inv)
            ELSE Goto(ins.cx, inv, "exp_bot_state.delete")
    [] inv.pc = "exp_bot_state.delete" -> Return(clear_state(cx, out, inv.uid), inv)

\* the call at inv.pc stages an amount
Stages(inv) == inv.pc = "exp_bot_state.upsert" /\ inv.text # AddExpenseText

\* the senders of the interleaved runs, both allowed
Racers == {17, 25}

EmptyCx == [users |-> {}, state |-> {}, expenses |-> <<>>, totals |-> {}, calls |-> <<>>]

InitRace ==
  /\ exp_users = {}
  /\ exp_bot_state = {}
  /\ exp_expenses = <<>>
  /\ exp_monthly_totals = {}
  /\ now = Clock0
  /\ inflight = [p \in Procs |-> Idle]
  /\ staged = {}
  /\ ret = None

\* both threads serve the messages of one sender
InitSameUser ==
  /\ InitRace
  /\ arg = [p \in Procs |-> 17]
  /\ stagings = [u \in UserIds |-> 0]
  /\ alone = <<>>

\* each thread serves the messages of its own sender
InitTwoUsers ==
  /\ InitRace
  /\ arg = <<17, 25>>
  /\ stagings = <<>>
  /\ alone = [tg \in Racers |-> [cx |-> EmptyCx, inv |-> Idle]]

\* the same call with the same outcome where the sender is alone
AloneCall(w, ok) ==
  IF w.inv = Idle THEN w ELSE store_call(w.cx, w.inv, ok, now)

\* a thread makes the store call its invocation stands before and runs on to
\* the one after
Call(p, inv, ok) ==
  LET res == store_call(Cx0, inv, ok, now)
      counted == ok /\ Stages(inv) /\ inv.uid \in DOMAIN stagings
  IN /\ (ok /\ inv.pc = "exp_expenses.insert") => Len(exp_expenses) < MaxExpenses
     /\ counted => stagings[inv.uid] < MaxStagings
     /\ exp_users' = res.cx.users
     /\ exp_bot_state' = res.cx.state
     /\ exp_expenses' = res.cx.expenses
     /\ exp_monthly_totals' = res.cx.totals
     /\ inflight' = [inflight EXCEPT ![p] = res.inv]
     /\ stagings' = IF counted THEN [stagings EXCEPT ![inv.uid] = @ + 1] ELSE stagings
     /\ staged' = IF counted THEN staged \cup {<<inv.uid, parse_amount(inv.text)>>}
                  ELSE staged
     /\ alone' = [tg \in DOMAIN alone |->
                    IF tg = inv.tg
                    THEN AloneCall(IF inflight[p] = Idle THEN [alone[tg] EXCEPT !.inv = inv]
                                   ELSE alone[tg], ok)
                    ELSE alone[tg]]
     /\ UNCHANGED <<now, arg, ret>>

\* a thread takes a message: tg_user_id, chat_id, the stripped text, the
\* allow-list test, and the first store call of ensure_user
Begin(p) ==
  \E raw \in RaceTexts : \E chat \in ChatsOf(arg[p]) : \E ok \in BOOLEAN :
    /\ inflight[p] = Idle
    /\ is_allowed(arg[p])
    /\ Call(p, [pc |-> "exp_users.select", tg |-> arg[p], chat |-> chat,
                text |-> Strip(raw), uid |-> 0, st |-> None], ok)

\* a thread in flight makes its next store call
StoreCall(p) ==
  \E ok \in BOOLEAN :
    /\ inflight[p] # Idle
    /\ Call(p, inflight[p], ok)

NextRace == \E p \in Procs : Begin(p) \/ StoreCall(p)

SpecSameUser == InitSameUser /\ [][NextRace]_vars

SpecTwoUsers == InitTwoUsers /\ [][NextRace]_vars

(***************************************************************************)
(* C1: when every store call succeeds and the messages of one allowed user *)
(* are handled one after the other, from IDLE the messages 'Add expense',  *)
(* a text that parses to a valid amount a, a text with non-empty           *)
(* normalized title t leave the pending action at AWAITING_AMOUNT, then at *)
(* AWAITING_TITLE with staged amount a, and finally add exactly one        *)
(* Expense (owner, a, t) and leave the user IDLE (no row).                 *)
(***************************************************************************)
C1_EndToEnd ==
  \A tg \in Senders : \A chat \in ChatsOf(tg) :
    (Allowed(tg) /\ Pending(exp_bot_state, IdOf(exp_users, tg)) = {}) =>
      \A m1 \in Texts : Strip(m1) = AddExpenseText =>
        \A m2 \in Texts : \A m3 \in Texts :
          LET r1 == RunText(Cx0, tg, chat, m1, <<>>)
              r2 == RunText(r1.cx, tg, chat, m2, <<>>)
              r3 == RunText(r2.cx, tg, chat, m3, <<>>)
              owner == IdOf(r1.cx.users, tg)
              a == parse_amount(Strip(m2))
              t == NormalizeTitle(m3)
          IN ( /\ ~IsCommand(m2) /\ a # None /\ a[1] > 0
               /\ ~IsCommand(m3) /\ t # <<>> )
             => /\ AllOk(r1) /\ AllOk(r2) /\ AllOk(r3)
                /\ Pending(r1.cx.state, owner) = {<<"await_amount", None>>}
                /\ r1.cx.expenses = exp_expenses
                /\ Pending(r2.cx.state, owner) = {<<"await_title", a>>}
                /\ r2.cx.expenses = exp_expenses
                /\ r3.cx.expenses = Append(exp_expenses,
                       [user_id |-> owner, amount |-> a, title |-> t, created_at |-> now])
                /\ Pending(r3.cx.state, owner) = {}

\* the flow has run to its end for the first user of a fresh store
C1_Witness ==
  /\ Len(exp_expenses) = 1
  /\ exp_expenses[1].user_id = IdOf(exp_users, 17)
  /\ exp_expenses[1].amount = Some(2350)
  /\ exp_expenses[1].title = FreeTitle
  /\ Pending(exp_bot_state, IdOf(exp_users, 17)) = {}

(***************************************************************************)
(* C2: in every reachable state, with any store call allowed to fail,      *)
(* every Expense row has an amount > 0 and a title that is non-empty, has  *)
(* no leading or trailing whitespace and no run of more than one           *)
(* whitespace character.                                                   *)
(***************************************************************************)
WellFormedTitle(t) ==
  /\ t # <<>>
  /\ t[1] \notin Whitespace
  /\ t[Len(t)] \notin Whitespace
  /\ \A i \in 1..(Len(t) - 1) : ~(t[i] \in Whitespace /\ t[i + 1] \in Whitespace)

C2_ExpenseWellFormed ==
  \A i \in 1..Len(exp_expenses) :
    /\ exp_expenses[i].amount # None
    /\ exp_expenses[i].amount[1] > 0
    /\ WellFormedTitle(exp_expenses[i].title)

\* an Expense whose title came from a text with whitespace runs, committed
\* after a text that rounds to 0.00 was offered as an amount
C2_Witness ==
  \E i \in 1..Len(exp_expenses) :
    /\ exp_expenses[i].title = FreeTitle
    /\ exp_expenses[i].amount = Some(12)

(***************************************************************************)
(* C3: in every reachable state, with any store call allowed to fail, a    *)
(* persisted PendingAction has a staged amount if and only if its action   *)
(* kind is AWAITING_TITLE (an absent row is NONE with no staged amount).   *)
(***************************************************************************)
C3_StagedIffAwaitingTitle ==
  \A r \in exp_bot_state : (r.temp_amount # None) <=> (r.pending_action = "await_title")

\* one user awaits a title with a staged amount while another row awaits an
\* amount with none
C3_Witness ==
  /\ \E r \in exp_bot_state : r.pending_action = "await_title" /\ r.temp_amount = Some(2350)
  /\ \E r \in exp_bot_state : r.pending_action = "await_amount" /\ r.temp_amount = None

(***************************************************************************)
(* C4: for each user, the number of Expense rows never exceeds the number  *)
(* of successful AWAITING_AMOUNT -> AWAITING_TITLE transitions: a staged   *)
(* amount is committed as an Expense at most once.                         *)
(***************************************************************************)
C4_AtMostOncePerStaging ==
  \A u \in UserIds : Len(ExpensesOf(exp_expenses, u)) <= stagings[u]

(***************************************************************************)
(* C5: whenever a store call of a handler run (user read, state read,      *)
(* state upsert, expense insert) returns an error, the run sends the       *)
(* failure notice and none of the normal prompt, acknowledgement, help or  *)
(* welcome texts, and leaves every PendingAction and Expense as before.    *)
(***************************************************************************)
GuardedCalls ==
  {"exp_users.select", "exp_bot_state.select", "exp_bot_state.upsert", "exp_expenses.insert"}

NormalTexts ==
  {AmountPromptMsg.msg, HelpMsg.msg, WelcomeMsg.msg,
   AmountOkMsg(0).msg, SavedMsg(0, <<>>).msg, InvalidAmountMsg.msg, EmptyTitleMsg.msg}

Aborted(res) ==
  /\ \A i \in 1..Len(res.sent) : res.sent[i].msg \notin NormalTexts
  /\ res.sent # <<>>
  /\ res.cx.state = exp_bot_state
  /\ res.cx.expenses = exp_expenses

C5_StoreErrorAborts ==
  \A tg \in Senders : \A chat \in ChatsOf(tg) :
    /\ \A text \in Texts : \A res \in TextRuns(Cx0, tg, chat, text, <<>>) :
         (\E l \in GuardedCalls : Failed(res, l)) => Aborted(res)
    /\ \A res \in StartRuns(Cx0, tg, chat, <<>>) :
         (\E l \in GuardedCalls : Failed(res, l)) => Aborted(res)

(***************************************************************************)
(* C6: when an allowed user whose pending action is AWAITING_TITLE with    *)
(* staged amount a sends 'Add expense' and the store calls of that message *)
(* succeed, the pending action becomes AWAITING_AMOUNT with no staged      *)
(* amount and no Expense is created; the next message, whatever it is and  *)
(* whatever store calls fail, creates no Expense and stages no amount but  *)
(* the one parsed from its own text; and no message ever creates an        *)
(* Expense with an amount other than the one staged when it is handled.    *)
(***************************************************************************)
C6_Overwrite ==
  \A tg \in Senders : \A chat \in ChatsOf(tg) : \A m1 \in Texts :
    LET owner == IdOf(exp_users, tg)
        before == Pending(exp_bot_state, owner)
        r1 == RunText(Cx0, tg, chat, m1, <<>>)
    IN /\ ( /\ Allowed(tg)
            /\ Strip(m1) = AddExpenseText
            /\ \E p \in before : p[1] = "await_title" )
          => /\ Pending(r1.cx.state, owner) = {<<"await_amount", None>>}
             /\ r1.cx.expenses = exp_expenses
             /\ \A m2 \in Texts : \A r2 \in TextRuns(r1.cx, tg, chat, m2, <<>>) :
                  /\ r2.cx.expenses = exp_expenses
                  /\ Pending(r2.cx.state, owner) \in
                       {{<<"await_amount", None>>},
                        {<<"await_title", parse_amount(Strip(m2))>>}}
       /\ \A r \in TextRuns(Cx0, tg, chat, m1, <<>>) :
            r.cx.expenses # exp_expenses
              => /\ Len(r.cx.expenses) = Len(exp_expenses) + 1
                 /\ SubSeq(r.cx.expenses, 1, Len(exp_expenses)) = exp_expenses
                 /\ before = {<<"await_title", r.cx.expenses[Len(r.cx.expenses)].amount>>}
                 /\ ~IsCommand(m1)

\* the user has committed 23.50 before and abandons a staged 0.12: the row
\* is overwritten and 0.12 is in no Expense
C6_Witness ==
  LET owner == IdOf(exp_users, 17)
      r1 == RunText(Cx0, 17, 17, AddExpenseText, <<>>)
  IN /\ owner # 0
     /\ Pending(exp_bot_state, owner) = {<<"await_title", Some(12)>>}
     /\ Len(exp_expenses) = 1 /\ exp_expenses[1].amount = Some(2350)
     /\ Pending(r1.cx.state, owner) = {<<"await_amount", None>>}

(***************************************************************************)
(* C7: for every inbound event (text message or /start, /help) whose       *)
(* sender is not in the allow-list, whatever the store holds: no store     *)
(* call is made, no User, PendingAction or Expense row is created, changed *)
(* or deleted, and the response is the denial message.                     *)
(***************************************************************************)
C7_DeniedTouchesNothing ==
  \A tg \in TgIds : \A chat \in ChatsOf(tg) :
    ~Allowed(tg) =>
      /\ \A text \in Texts : \A res \in TextRuns(Cx0, tg, chat, text, <<>>) :
           res.cx = Cx0 /\ res.sent = <<DeniedMsg>>
      /\ \A res \in StartRuns(Cx0, tg, chat, <<>>) :
           res.cx = Cx0 /\ res.sent = <<DeniedMsg>>

\* the store holds a User row and a pending action of the denied identity,
\* and Expenses of another user; its 'Add expense' is denied
C7_Witness ==
  /\ \E u \in exp_users : u.tg_user_id = 7 /\ Pending(exp_bot_state, u.id) # {}
  /\ exp_expenses # <<>>
  /\ RunText(Cx0, 7, 7, AddExpenseText, <<>>).sent = <<DeniedMsg>>

(***************************************************************************)
(* C8: every handler invocation (handle_text or cmd_start), for every      *)
(* text, every stored state and every combination of store-call outcomes,  *)
(* sends exactly one outbound message.                                     *)
(***************************************************************************)
C8_ExactlyOneMessage ==
  \A tg \in Senders : \A chat \in ChatsOf(tg) :
    /\ \A text \in Texts : \A res \in TextRuns(Cx0, tg, chat, text, <<>>) :
         Len(res.sent) = 1
    /\ \A res \in StartRuns(Cx0, tg, chat, <<>>) : Len(res.sent) = 1

\* in AWAITING_AMOUNT, a text that is no amount gets the corrective prompt
\* alone, and a title text whose insert succeeds and whose clear fails gets
\* the confirmation alone
C8_Witness ==
  LET owner == IdOf(exp_users, 17) IN
  /\ owner # 0
  /\ Pending(exp_bot_state, owner) = {<<"await_amount", None>>}
  /\ RunText(Cx0, 17, 17, FreeText, <<>>).sent = <<InvalidAmountMsg>>
  /\ \E i \in 1..Len(exp_expenses) : exp_expenses[i].user_id = owner

(***************************************************************************)
(* C9: a validation failure changes nothing.  When the user and state      *)
(* reads succeed, in AWAITING_AMOUNT a non-command text that does not      *)
(* parse to a valid amount, and in AWAITING_TITLE a non-command text that  *)
(* is empty after whitespace normalization, leave every PendingAction and  *)
(* the Expenses unchanged and produce the corrective prompt.               *)
(***************************************************************************)
InvalidAmountText(text) ==
  LET a == parse_amount(Strip(text)) IN a = None \/ a[1] <= 0

\* the reads of the user and of its pending action succeeded
ReadsOk(res) == ~Failed(res, "exp_users.select") /\ ~Failed(res, "exp_bot_state.select")

C9_ValidationChangesNothing ==
  \A tg \in Senders : \A chat \in ChatsOf(tg) : \A text \in Texts :
    LET before == Pending(exp_bot_state, IdOf(exp_users, tg)) IN
    /\ ( /\ Allowed(tg) /\ ~IsCommand(text)
         /\ before = {<<"await_amount", None>>}
         /\ InvalidAmountText(text) )
       => \A res \in TextRuns(Cx0, tg, chat, text, <<>>) :
            ReadsOk(res) => /\ res.cx.state = exp_bot_state
                            /\ res.cx.expenses = exp_expenses
                            /\ res.sent = <<InvalidAmountMsg>>
    /\ ( /\ Allowed(tg) /\ ~IsCommand(text)
         /\ \E p \in before : p[1] = "await_title"
         /\ NormalizeTitle(text) = <<>> )
       => \A res \in TextRuns(Cx0, tg, chat, text, <<>>) :
            ReadsOk(res) => /\ res.cx.state = exp_bot_state
                            /\ res.cx.expenses = exp_expenses
                            /\ res.sent = <<EmptyTitleMsg>>

\* a user with a committed Expense awaits a title, and a blank text is
\* answered with the corrective prompt
C9_Witness ==
  LET owner == IdOf(exp_users, 17) IN
  /\ owner # 0
  /\ Pending(exp_bot_state, owner) = {<<"await_title", Some(2350)>>}
  /\ exp_expenses # <<>>
  /\ RunText(Cx0, 17, 17, <<" ", " ">>, <<>>).sent = <<EmptyTitleMsg>>

(***************************************************************************)
(* C10: handling 'See expenses' or 'See last month', in any state (IDLE,   *)
(* AWAITING_AMOUNT, AWAITING_TITLE) and with any store-call outcomes,      *)
(* leaves every PendingAction, every Expense and every MonthlyTotal        *)
(* unchanged.                                                              *)
(***************************************************************************)
C10_ReportsChangeNothing ==
  \A tg \in Senders : \A chat \in ChatsOf(tg) : \A text \in Texts :
    Strip(text) \in {SeeExpensesText, SeeLastMonthText} =>
      \A res \in TextRuns(Cx0, tg, chat, text, <<>>) :
        /\ res.cx.state = exp_bot_state
        /\ res.cx.expenses = exp_expenses
        /\ res.cx.totals = exp_monthly_totals

\* an entry in progress with a staged amount, a committed Expense and a
\* stored total of last month: both reports list them and the flow is
\* where it was
C10_Witness ==
  LET owner == IdOf(exp_users, 17)
      r1 == RunText(Cx0, 17, 17, SeeExpensesText, <<>>)
      r2 == RunText(Cx0, 17, 17, SeeLastMonthText, <<>>)
  IN /\ owner # 0
     /\ Pending(exp_bot_state, owner) = {<<"await_title", Some(12)>>}
     /\ exp_monthly_totals # {}
     /\ r1.sent[1].args = <<Format2f(2350), Format2f(2350), FreeTitle, MonthDay(now)>>
     /\ r2.sent[1].args = <<YearMonth(LastMonthStart(now)), Format2f(4200)>>
     /\ Pending(r1.cx.state, owner) = Pending(exp_bot_state, owner)

(***************************************************************************)
(* C11: when an allowed user awaits a title with staged amount a and a     *)
(* non-command text with a non-empty normalized title is handled with the  *)
(* Expense insert succeeding and the state clear failing, the one message  *)
(* sent is the success confirmation, the Expense is added and every        *)
(* PendingAction stays as it was (AWAITING_TITLE with a); the user's next  *)
(* 'Add expense' whose upsert succeeds then leaves AWAITING_AMOUNT with no *)
(* staged amount and adds no Expense.                                      *)
(***************************************************************************)
C11_CleanupBestEffort ==
  \A tg \in Senders : \A chat \in ChatsOf(tg) : \A text \in Texts :
    LET owner == IdOf(exp_users, tg)
        before == Pending(exp_bot_state, owner)
        title == NormalizeTitle(text)
    IN ( /\ Allowed(tg) /\ ~IsCommand(text) /\ title # <<>>
         /\ \E p \in before : p[1] = "await_title" )
       => \A r1 \in TextRuns(Cx0, tg, chat, text, <<>>) :
            ( Succeeded(r1, "exp_expenses.insert") /\ Failed(r1, "exp_bot_state.delete") )
            => /\ \E a \in {p[2] : p \in before} :
                    /\ r1.sent = <<SavedMsg(a[1], title)>>
                    /\ r1.cx.expenses = Append(exp_expenses,
                          [user_id |-> owner, amount |-> a, title |-> title, created_at |-> now])
               /\ r1.cx.state = exp_bot_state
               /\ \A m \in Texts : Strip(m) = AddExpenseText =>
                    \A r2 \in TextRuns(r1.cx, tg, chat, m, <<>>) :
                      Succeeded(r2, "exp_bot_state.upsert")
                      => /\ Pending(r2.cx.state, owner) = {<<"await_amount", None>>}
                         /\ r2.cx.expenses = r1.cx.expenses

\* the stale state: the one Expense of the user carries the amount that is
\* still staged, and the next 'Add expense' overwrites the row
C11_Witness ==
  LET owner == IdOf(exp_users, 17)
      r2 == RunText(Cx0, 17, 17, AddExpenseText, <<>>)
  IN /\ owner # 0
     /\ Len(exp_expenses) = 1
     /\ exp_expenses[1].amount = Some(12)
     /\ Pending(exp_bot_state, owner) = {<<"await_title", Some(12)>>}
     /\ Pending(r2.cx.state, owner) = {<<"await_amount", None>>}

(***************************************************************************)
(* C19: when an allowed user awaits a title with staged amount a and the   *)
(* Expense insert of a non-empty title fails, no Expense is added, no      *)
(* state clear is attempted, the state table is as before and the one      *)
(* message sent is the 'Save failed' notice; a following non-empty title   *)
(* whose insert succeeds adds exactly one Expense, with amount a.          *)
(***************************************************************************)
C19_FailedInsertKeepsStaging ==
  \A tg \in Senders : \A chat \in ChatsOf(tg) : \A text \in Texts :
    LET owner == IdOf(exp_users, tg)
        before == Pending(exp_bot_state, owner)
    IN ( /\ Allowed(tg) /\ ~IsCommand(text) /\ NormalizeTitle(text) # <<>>
         /\ \E p \in before : p[1] = "await_title" )
       => \A r1 \in TextRuns(Cx0, tg, chat, text, <<>>) :
            Failed(r1, "exp_expenses.insert")
            => /\ r1.cx.expenses = exp_expenses
               /\ ~Called(r1, "exp_bot_state.delete")
               /\ r1.cx.state = exp_bot_state
               /\ r1.sent = <<SaveFailedMsg>>
               /\ \A t2 \in Texts : (~IsCommand(t2) /\ NormalizeTitle(t2) # <<>>) =>
                    \A r2 \in TextRuns(r1.cx, tg, chat, t2, <<>>) :
                      Succeeded(r2, "exp_expenses.insert")
                      => \E a \in {p[2] : p \in before} :
                           r2.cx.expenses = Append(exp_expenses,
                             [user_id |-> owner, amount |-> a,
                              title |-> NormalizeTitle(t2), created_at |-> now])

\* a user with one committed Expense awaits a title with 0.12 staged; the
\* insert of the title fails and the notice is sent
C19_Witness ==
  LET owner == IdOf(exp_users, 17)
      r1 == RunText(Cx0, 17, 17, FreeText, <<TRUE, TRUE, TRUE, FALSE>>)
  IN /\ owner # 0
     /\ Pending(exp_bot_state, owner) = {<<"await_title", Some(12)>>}
     /\ Len(exp_expenses) = 1
     /\ Failed(r1, "exp_expenses.insert")
     /\ r1.sent = <<SaveFailedMsg>>

(***************************************************************************)
(* C18: for every text of the bounded input set, parse_amount returns None *)
(* when float() refuses the text or its value is zero or negative, returns *)
(* a value strictly greater than zero otherwise (the result is a number of *)
(* hundredths, so it has at most 2 fractional digits), and returns the     *)
(* same for any two texts that differ only in ',' versus '.'.              *)
(***************************************************************************)
C18_ParseAmount ==
  ret # None =>
    LET n == ParseFloat(ReplaceComma(arg))
        r == ret[1]
    IN /\ (n = None \/ n[1] <= 0) => r = None
       /\ (n # None /\ n[1] > 0) => (r # None /\ r[1] > 0)
       /\ \A other \in ParseInputs :
            ReplaceComma(other) = ReplaceComma(arg) => parse_amount(other) = r

(***************************************************************************)
(* C17: after any sequence of set_state calls, there is at most one        *)
(* PendingAction row per owner and, once a call for the owner succeeded,   *)
(* the row holds exactly the action kind and the staged amount of the last *)
(* call that succeeded; a second successful call with the same arguments   *)
(* leaves the table as the first did.                                      *)
(***************************************************************************)
C17_LastWriteWins ==
  /\ \A u \in UserIds :
       /\ Cardinality({r \in exp_bot_state : r.user_id = u}) <= 1
       /\ arg[u] # None => Pending(exp_bot_state, u) = {arg[u][1]}
  /\ \A u \in UserIds : \A action \in Actions : \A amount \in Amounts :
       LET once == set_state(Cx0, <<TRUE>>, now, u, action, amount)
           twice == set_state(Fresh(once), <<TRUE>>, now, u, action, amount)
       IN /\ twice.state = once.state
          /\ Pending(once.state, u) = {<<action, amount>>}
          /\ \A v \in UserIds \ {u} : Pending(once.state, v) = Pending(exp_bot_state, v)

\* two calls for owner 1 have succeeded, the last one without an amount,
\* and its row holds that call while another owner's row holds an amount
C17_Witness ==
  /\ ret[1] = 2
  /\ arg[1] = Some(<<"await_amount", None>>)
  /\ Pending(exp_bot_state, 1) = {<<"await_amount", None>>}
  /\ \E u \in UserIds \ {1} : Pending(exp_bot_state, u) = {<<"await_title", Some(12)>>}

(***************************************************************************)
(* C16: when 'See last month' is handled and the read of the total         *)
(* succeeds, the message sent is the report for the first day of the       *)
(* calendar month before the current one (December of the year before in   *)
(* January), carrying the total of the user's MonthlyTotal row for that    *)
(* month start, or zero when there is no such row.                         *)
(***************************************************************************)
\* months counted from year 0
MonthIndex(d) == 12 * d.year + d.month

\* the month start whose month comes right before the month of clock
PrevMonthKey(clock) ==
  CHOOSE k \in {MonthStartOf(y, m) : y \in 2024..2026, m \in 1..12} :
    MonthIndex(k) + 1 = MonthIndex(clock)

C16_LastMonthKey ==
  ret # None =>
    LET res == ret[1]
        owner == IdOf(res.cx.users, 17)
        key == PrevMonthKey(now)
        rows == {t \in exp_monthly_totals : t.user_id = owner /\ t.month_start = key}
        total == IF rows = {} THEN 0 ELSE (CHOOSE t \in rows : TRUE).total
    IN Succeeded(res, "exp_monthly_totals.get_last")
       => /\ res.sent = <<Reply("Your expenses for {last_start[:7]}: {total:.2f}",
                                <<YearMonth(key), Format2f(total)>>, TRUE)>>
          /\ (now.month = 1 => key = MonthStartOf(now.year - 1, 12))

\* in January 2026, with totals stored for other months and other users
\* but none for December 2025, the report reads 2025-12 and 0.00
C16_Witness ==
  /\ ret # None
  /\ now.year = 2026 /\ now.month = 1
  /\ exp_monthly_totals # {}
  /\ ret[1].sent[1].args = << <<"2", "0", "2", "5", "-", "1", "2">>, <<"0", ".", "0", "0">> >>
  /\ ret[1].sent[1].kb

(***************************************************************************)
(* C15: after any run of N inserts for a user within the current month, of *)
(* amounts in any order, a 'See expenses' whose store calls succeed        *)
(* reports as total the exact sum of the N amounts in hundredths, also     *)
(* when N exceeds 10, and lists the min(N, 10) rows of that window with    *)
(* the latest recorded_at, latest first.                                   *)
(***************************************************************************)
\* the positions of the user's rows of the current month
Window(owner) ==
  {i \in 1..Len(exp_expenses) :
     /\ exp_expenses[i].user_id = owner
     /\ exp_expenses[i].created_at.year = now.year
     /\ exp_expenses[i].created_at.month = now.month}

\* the sum of the amounts, amount by amount
ExactSum(owner) ==
  LET amounts == {exp_expenses[i].amount[1] : i \in Window(owner)}
      count(a) == Cardinality({i \in Window(owner) : exp_expenses[i].amount[1] = a})
      RECURSIVE Total(_)
      Total(S) == IF S = {} THEN 0
                  ELSE LET a == CHOOSE x \in S : TRUE IN a * count(a) + Total(S \ {a})
  IN Total(amounts)

\* the position of the row that k - 1 rows of the window are later than
Ranked(owner, k) ==
  CHOOSE i \in Window(owner) :
    Cardinality({j \in Window(owner) :
                   /\ exp_expenses[j].created_at # exp_expenses[i].created_at
                   /\ DateGte(exp_expenses[j].created_at, exp_expenses[i].created_at)}) = k - 1

C15_ReportTotals ==
  ret # None =>
    LET res == ret[1]
        owner == IdOf(exp_users, 17)
        n == Cardinality(Window(owner))
        shown == IF n < 10 THEN n ELSE 10
        args == res.sent[1].args
    IN AllOk(res)
       => /\ Len(res.sent) = 1
          /\ args[1] = Format2f(ExactSum(owner))
          /\ n > 0 => Len(args) = 1 + 3 * shown
          /\ \A k \in 1..shown :
               LET row == exp_expenses[Ranked(owner, k)] IN
               /\ args[3 * k - 1] = Format2f(row.amount[1])
               /\ args[3 * k] = row.title
               /\ args[3 * k + 1] = MonthDay(row.created_at)
          /\ n = 0 => args = <<Format2f(0), NoItemsLine>>

\* eleven rows of the month, of different amounts, next to rows of last
\* month and of another user: the total counts all eleven, the listing
\* starts at the latest and leaves the earliest out
C15_Witness ==
  /\ ret # None
  /\ AllOk(ret[1])
  /\ Cardinality(Window(2)) = 11
  /\ Len(exp_expenses) = 13
  /\ exp_expenses[3].amount = Some(1999)
  /\ \A i \in 4..13 : exp_expenses[i].amount = Some(5)
  /\ ret[1].sent[1].args[1] = <<"2", "0", ".", "4", "9">>
  /\ Len(ret[1].sent[1].args) = 31

(***************************************************************************)
(* C14 as stated: for every allowed user, whenever the PendingAction is    *)
(* AWAITING_AMOUNT or AWAITING_TITLE it is eventually IDLE (row absent),   *)
(* the user's messages being handled fairly.  In the form a finite run     *)
(* refutes: from no state in which the user has a pending action do two    *)
(* messages of the user, handled one after the other with every store call *)
(* succeeding, change the store and bring it back to that very state with  *)
(* the PendingAction never IDLE; the behaviour that repeats such a pair    *)
(* for ever handles every message it is sent and never reaches IDLE.       *)
(***************************************************************************)
C14_EventuallyIdle ==
  \A tg \in Senders : \A chat \in ChatsOf(tg) :
    LET owner == IdOf(exp_users, tg) IN
    (Allowed(tg) /\ Pending(exp_bot_state, owner) # {}) =>
      \A m1 \in Texts : \A m2 \in Texts :
        LET r1 == RunText(Cx0, tg, chat, m1, <<>>)
            r2 == RunText(r1.cx, tg, chat, m2, <<>>)
        IN ~( /\ r1.cx.state # exp_bot_state
              /\ Pending(r1.cx.state, owner) # {}
              /\ r2.cx.users = exp_users
              /\ r2.cx.state = exp_bot_state
              /\ r2.cx.expenses = exp_expenses
              /\ r2.cx.totals = exp_monthly_totals )

(***************************************************************************)
(* C14 amended: no terminal state, and IDLE stays within reach.  For every *)
(* allowed user whose PendingAction is AWAITING_AMOUNT or AWAITING_TITLE,  *)
(* a valid amount (when AWAITING_AMOUNT) followed by a non-command text    *)
(* with a non-empty title, handled with their store calls succeeding,      *)
(* leave the PendingAction IDLE; no other message of the user does.        *)
(***************************************************************************)
C14_IdleWithinReach ==
  \A tg \in Senders : \A chat \in ChatsOf(tg) :
    LET owner == IdOf(exp_users, tg)
        before == Pending(exp_bot_state, owner)
    IN (Allowed(tg) /\ before # {}) =>
         /\ \A m1 \in Texts : \A m2 \in Texts :
              ( /\ ~IsCommand(m1) /\ ~InvalidAmountText(m1)
                /\ ~IsCommand(m2) /\ NormalizeTitle(m2) # <<>> )
              => LET r1 == IF \E p \in before : p[1] = "await_amount"
                           THEN RunText(Cx0, tg, chat, m1, <<>>)
                           ELSE [cx |-> Cx0, sent |-> <<>>]
                     r2 == RunText(r1.cx, tg, chat, m2, <<>>)
                 IN /\ \E p \in Pending(r1.cx.state, owner) : p[1] = "await_title"
                    /\ Pending(r2.cx.state, owner) = {}
         /\ \A m \in Texts : \A r \in TextRuns(Cx0, tg, chat, m, <<>>) :
              Pending(r.cx.state, owner) = {}
              => /\ \E p \in before : p[1] = "await_title"
                 /\ ~IsCommand(m) /\ NormalizeTitle(m) # <<>>
                 /\ Succeeded(r, "exp_bot_state.delete")

\* a user who has committed an Expense awaits an amount again: two more
\* messages end the entry
C14_Witness ==
  LET owner == IdOf(exp_users, 17)
      r1 == RunText(Cx0, 17, 17, <<"0", ",", "1", "2", "5">>, <<>>)
      r2 == RunText(r1.cx, 17, 17, FreeText, <<>>)
  IN /\ owner # 0
     /\ Pending(exp_bot_state, owner) = {<<"await_amount", None>>}
     /\ exp_expenses # <<>>
     /\ Pending(r1.cx.state, owner) = {<<"await_title", Some(12)>>}
     /\ Pending(r2.cx.state, owner) = {}
     /\ Len(r2.cx.expenses) = Len(exp_expenses) + 1


(***************************************************************************)
(* C12: with no per-user lock, two invocations for the same user can both  *)
(* read the same await_title record and both insert: whenever both stand   *)
(* between their insert and their delete holding the same record, the      *)
(* user has two Expense rows of the one staged amount.                     *)
(***************************************************************************)
BothInserted ==
  /\ \A p \in Procs : inflight[p].pc = "exp_bot_state.delete"
  /\ inflight[1].uid = inflight[2].uid
  /\ inflight[1].st = inflight[2].st

RowsOfAmount(user_id, amount) ==
  Len(SelectSeq(exp_expenses, LAMBDA e : e.user_id = user_id /\ e.amount = amount))

C12_TwoRowsFromOneStaging ==
  BothInserted => RowsOfAmount(inflight[1].uid, inflight[1].st[1].temp_amount) >= 2

\* the amount was staged once, and two rows carry it
C12_Witness ==
  /\ BothInserted
  /\ stagings[inflight[1].uid] = 1
  /\ RowsOfAmount(inflight[1].uid, inflight[1].st[1].temp_amount) = 2


(***************************************************************************)
(* C13: invocations for different users are independent under every        *)
(* interleaving of their store calls: a step of one thread leaves what the *)
(* store holds for the other sender as it is, and at every moment the      *)
(* User row, PendingAction and Expenses of a sender, and the position of   *)
(* its invocation, are those of the world in which its messages are        *)
(* handled alone in the same order.                                        *)
(***************************************************************************)
\* what the store holds for sender tg, the ids the store assigns left out
ViewOf(cx, tg) ==
  LET id == IdOf(cx.users, tg)
      own == ExpensesOf(cx.expenses, id)
  IN [user |-> {<<u.tg_user_id, u.tg_chat_id>> : u \in UserRows(cx, tg)},
      pending |-> {<<r.pending_action, r.temp_amount, r.updated_at>>
                     : r \in {x \in cx.state : x.user_id = id}},
      expenses |-> [i \in 1..Len(own) |-> <<own[i].amount, own[i].title, own[i].created_at>>]]

\* the record an invocation has read, its owner left out
ReadOf(st) == IF st = None THEN None
              ELSE Some(<<st[1].pending_action, st[1].temp_amount, st[1].updated_at>>)

SameInv(a, b) ==
  /\ a.pc = b.pc
  /\ a.pc # "idle" => /\ a.text = b.text
                      /\ (a.uid = 0) = (b.uid = 0)
                      /\ ReadOf(a.st) = ReadOf(b.st)

AsAlone ==
  \A p \in Procs :
    /\ ViewOf(Cx0, arg[p]) = ViewOf(alone[arg[p]].cx, arg[p])
    /\ SameInv(inflight[p], alone[arg[p]].inv)

OthersUntouched ==
  \A p \in Procs :
    inflight'[p] = inflight[p] => ViewOf(Cx0', arg[p]) = ViewOf(Cx0, arg[p])

C13_Independent == []AsAlone /\ [][OthersUntouched]_vars

\* one sender between its insert and its delete while the other, who has
\* an Expense of its own, is in flight
C13_Witness ==
  /\ inflight[1].pc = "exp_bot_state.delete"
  /\ inflight[2] # Idle
  /\ \E i, j \in 1..Len(exp_expenses) : exp_expenses[i].user_id # exp_expenses[j].user_id


(***************************************************************************)
(* C20: provenance of expenses, under store-call failures and same-user    *)
(* interleavings.  As claimed: every Expense row has an amount that was    *)
(* earlier staged for its owner in await_title and a title that is none of *)
(* the fixed command texts, and rows are never changed or deleted.         *)
(***************************************************************************)
FixedTexts == {AddExpenseText, SeeExpensesText, SeeLastMonthText}

AmountsStaged ==
  \A i \in 1..Len(exp_expenses) :
    <<exp_expenses[i].user_id, exp_expenses[i].amount>> \in staged

RowsKept == SubSeq(exp_expenses', 1, Len(exp_expenses)) = exp_expenses

TitlesNoCommand ==
  \A i \in 1..Len(exp_expenses) : exp_expenses[i].title \notin FixedTexts

C20_Provenance == [](AmountsStaged /\ TitlesNoCommand) /\ [][RowsKept]_vars

(***************************************************************************)
(* C20, amended: every Expense row has an amount that was earlier staged   *)
(* for its owner in await_title and a title that is the normalised form of *)
(* a message text that is none of the fixed command texts, and rows are    *)
(* never changed or deleted.                                               *)
(***************************************************************************)
TitlesOfFreeTexts ==
  {NormalizeTitle(Strip(raw)) : raw \in {t \in RaceTexts : Strip(t) \notin FixedTexts}}

TitlesFromFreeText ==
  \A i \in 1..Len(exp_expenses) :
    /\ exp_expenses[i].title \in TitlesOfFreeTexts
    /\ exp_expenses[i].title # <<>>

C20_ProvenanceOfText == [](AmountsStaged /\ TitlesFromFreeText) /\ [][RowsKept]_vars

\* two rows of one staging, one of them titled as a button is labelled
C20_Witness ==
  /\ Len(exp_expenses) = 2
  /\ \E i \in 1..2 : exp_expenses[i].title = AddExpenseText
  /\ \E u \in UserIds : stagings[u] = 1 /\ \A i \in 1..2 : exp_expenses[i].user_id = u

====
